---- MODULE Spec2Model ----
(***************************************************************************)
(* Base64 with support for multiple variants (lib/base64.c).               *)
(*                                                                         *)
(* Two implementations of base64_encode()/base64_decode() are modelled:    *)
(*   - the grouped one (3 bytes <-> 4 symbols per loop round), part_000,   *)
(*   - the bit-accumulator one (one byte / one symbol per round), part_001.*)
(* Characters and bytes are integers 0..255; a buffer handed to a function *)
(* is a sequence, the buffer a function writes is a function from the      *)
(* 0-based index written to the value written there.                       *)
(***************************************************************************)
EXTENDS Integers, Sequences, FiniteSets, TLC

(***************************************************************************)
(* Bounds of the explored inputs.                                          *)
(***************************************************************************)
MaxSrcLen == 4
MaxTail == 4

\* byte values the binary buffers are drawn from: 0x00 'f' 'o' 0xfb
ByteVals == {0, 102, 111, 251}
\* characters the text buffers are drawn from: 'A' '9' '=' '/' '-'
CharVals == {65, 57, 61, 47, 45}
\* what is put in front of the free characters of a text buffer: nothing,
\* or one of the complete 4-character groups "Zm9v" and "Zm9="
Prefixes == {<<>>, <<90, 109, 57, 118>>, <<90, 109, 57, 61>>}

Variants == {"STD", "URLSAFE", "IMAP"}
Impls == {"grouped", "accum"}

(***************************************************************************)
(* C integer arithmetic.  A 32-bit word (u32 or s32) is held as the signed *)
(* integer with the same two's-complement bit pattern, so that a u32 with  *)
(* bit 31 set is a negative number here.  Shifts and bitwise operators     *)
(* work on the pattern; the kernel is built with -fno-strict-overflow and  *)
(* gcc defines << and >> of negative values on the pattern (arithmetic >>).*)
(***************************************************************************)
Pow2(n) == 2 ^ n

\* the pattern 0x80000000
MinS32 == (-1073741824) * 2

\* bits 0..30 of a word, as a natural number
Lo31(x) == IF x >= 0 THEN x ELSE x - MinS32

RECURSIVE BitAndN(_, _)
BitAndN(a, b) ==
    IF a = 0 \/ b = 0 THEN 0
    ELSE (IF a % 2 = 1 /\ b % 2 = 1 THEN 1 ELSE 0) + 2 * BitAndN(a \div 2, b \div 2)

RECURSIVE BitOrN(_, _)
BitOrN(a, b) ==
    IF a = 0 THEN b
    ELSE IF b = 0 THEN a
    ELSE (IF a % 2 = 1 \/ b % 2 = 1 THEN 1 ELSE 0) + 2 * BitOrN(a \div 2, b \div 2)

\* a & b
And32(a, b) == BitAndN(Lo31(a), Lo31(b)) + (IF a < 0 /\ b < 0 THEN MinS32 ELSE 0)

\* a | b
Or32(a, b) == BitOrN(Lo31(a), Lo31(b)) + (IF a < 0 \/ b < 0 THEN MinS32 ELSE 0)

\* x << n, 0 <= n <= 30: bits 32-n.. are lost, bit 31-n becomes bit 31
Shl32(x, n) ==
    IF n = 0 THEN x
    ELSE (x % Pow2(31 - n)) * Pow2(n)
         + (IF (x \div Pow2(31 - n)) % 2 = 1 THEN MinS32 ELSE 0)

\* x >> n of a u32 (zero fill), 0 <= n <= 30
ShrU32(x, n) ==
    IF n = 0 THEN x
    ELSE (Lo31(x) \div Pow2(n)) + (IF x < 0 THEN Pow2(31 - n) ELSE 0)

\* x >> n of an s32 (sign fill)
ShrS32(x, n) == x \div Pow2(n)

\* conversion to u8
ToU8(x) == x % 256

(***************************************************************************)
(* The tables.                                                             *)
(***************************************************************************)
PAD == 61  \* '='

\* "ABCDEFGHIJKLMNOPQRSTUVWXYZabcdefghijklmnopqrstuvwxyz0123456789"
Alnum ==
    << 65, 66, 67, 68, 69, 70, 71, 72, 73, 74, 75, 76, 77,
       78, 79, 80, 81, 82, 83, 84, 85, 86, 87, 88, 89, 90,
       97, 98, 99, 100, 101, 102, 103, 104, 105, 106, 107, 108, 109,
       110, 111, 112, 113, 114, 115, 116, 117, 118, 119, 120, 121, 122,
       48, 49, 50, 51, 52, 53, 54, 55, 56, 57 >>

base64_tables ==
    [v \in Variants |->
        CASE v = "STD"     -> Alnum \o <<43, 47>>     \* "+/"
          [] v = "URLSAFE" -> Alnum \o <<45, 95>>     \* "-_"
          [] v = "IMAP"    -> Alnum \o <<43, 44>>]    \* "+,"

\* [ch_62] = 63, [ch_63] = 62
BASE64_REV_INIT_swapped(ch_62, ch_63) ==
    [c \in 0..255 |->
        IF c = ch_63 THEN 62
        ELSE IF c = ch_62 THEN 63
        ELSE IF c >= 48 /\ c <= 57 THEN 52 + (c - 48)
        ELSE IF c >= 97 /\ c <= 122 THEN 26 + (c - 97)
        ELSE IF c >= 65 /\ c <= 90 THEN c - 65
        ELSE -1]

BASE64_REV_INIT(ch_62, ch_63) ==
    [c \in 0..255 |->
        IF c = ch_63 THEN 63
        ELSE IF c = ch_62 THEN 62
        ELSE IF c >= 48 /\ c <= 57 THEN 52 + (c - 48)
        ELSE IF c >= 97 /\ c <= 122 THEN 26 + (c - 97)
        ELSE IF c >= 65 /\ c <= 90 THEN c - 65
        ELSE -1]

base64_rev_maps ==
    [v \in Variants |->
        CASE v = "STD"     -> BASE64_REV_INIT(43, 47)
          [] v = "URLSAFE" -> BASE64_REV_INIT(45, 95)
          [] v = "IMAP"    -> BASE64_REV_INIT(43, 44)]

(***************************************************************************)
(* Buffer accesses.  A read of src[i] beyond the buffer yields 0 here; the *)
(* index is recorded in rd so that the bounds property sees it.            *)
(***************************************************************************)
At(src, i) == IF i >= 0 /\ i < Len(src) THEN src[i + 1] ELSE 0

\* *p++ = c
Put(m, c) == [m EXCEPT !.dst = (m.cp :> c) @@ m.dst, !.cp = m.cp + 1]

\* table[i] of a C array held as a sequence
Idx(table, i) == table[i + 1]

(***************************************************************************)
(* base64_encode(), grouped implementation.                               *)
(***************************************************************************)
RECURSIVE EncGroupedLoop(_, _, _)
EncGroupedLoop(m, src, base64_table) ==
    IF m.srclen >= 3 THEN
        LET ac == Or32(Or32(Shl32(At(src, m.s), 16), Shl32(At(src, m.s + 1), 8)),
                        At(src, m.s + 2))
            m1 == Put(m,  Idx(base64_table, ShrU32(ac, 18)))
            m2 == Put(m1, Idx(base64_table, And32(ShrU32(ac, 12), 63)))
            m3 == Put(m2, Idx(base64_table, And32(ShrU32(ac, 6), 63)))
            m4 == Put(m3, Idx(base64_table, And32(ac, 63)))
        IN  EncGroupedLoop([m4 EXCEPT !.s = m.s + 3, !.srclen = m.srclen - 3,
                                      !.rd = m.rd \cup {m.s, m.s + 1, m.s + 2}],
                           src, base64_table)
    ELSE m

EncGroupedTail(m, src, padding, base64_table) ==
    CASE m.srclen = 2 ->
            LET ac == Or32(Shl32(At(src, m.s), 16), Shl32(At(src, m.s + 1), 8))
                m1 == Put(m,  Idx(base64_table, ShrU32(ac, 18)))
                m2 == Put(m1, Idx(base64_table, And32(ShrU32(ac, 12), 63)))
                m3 == Put(m2, Idx(base64_table, And32(ShrU32(ac, 6), 63)))
                m4 == IF padding THEN Put(m3, PAD) ELSE m3
            IN  [m4 EXCEPT !.rd = m.rd \cup {m.s, m.s + 1}]
      [] m.srclen = 1 ->
            LET ac == Shl32(At(src, m.s), 16)
                m1 == Put(m,  Idx(base64_table, ShrU32(ac, 18)))
                m2 == Put(m1, Idx(base64_table, And32(ShrU32(ac, 12), 63)))
                m3 == IF padding THEN Put(Put(m2, PAD), PAD) ELSE m2
            IN  [m3 EXCEPT !.rd = m.rd \cup {m.s}]
      [] OTHER -> m

base64_encode_grouped(src, srclen, padding, variant) ==
    LET base64_table == base64_tables[variant]
        m0 == [s |-> 0, srclen |-> srclen, cp |-> 0, dst |-> <<>>, rd |-> {}]
        m1 == EncGroupedLoop(m0, src, base64_table)
        m2 == EncGroupedTail(m1, src, padding, base64_table)
    IN  [called |-> TRUE, ret |-> m2.cp, dst |-> m2.dst, rd |-> m2.rd]

(***************************************************************************)
(* base64_encode(), bit-accumulator implementation.                        *)
(***************************************************************************)
\* the symbol is taken before bits is lowered
RECURSIVE EncAccumEmit_late(_, _)
EncAccumEmit_late(m, base64_table) ==
    LET bits == m.bits - 6
        m1 == Put([m EXCEPT !.bits = bits],
                  Idx(base64_table, And32(ShrU32(m.ac, m.bits), 63)))
    IN  IF bits >= 6 THEN EncAccumEmit_late(m1, base64_table) ELSE m1

\* do { bits -= 6; *cp++ = base64_table[(ac >> bits) & 0x3f]; } while (bits >= 6);
RECURSIVE EncAccumEmit(_, _)
EncAccumEmit(m, base64_table) ==
    LET bits == m.bits - 6
        m1 == Put([m EXCEPT !.bits = bits],
                  Idx(base64_table, And32(ShrU32(m.ac, bits), 63)))
    IN  IF bits >= 6 THEN EncAccumEmit(m1, base64_table) ELSE m1

RECURSIVE EncAccumLoop(_, _, _, _)
EncAccumLoop(m, src, srclen, base64_table) ==
    IF m.i < srclen THEN
        LET m1 == [m EXCEPT !.ac = Or32(Shl32(m.ac, 8), At(src, m.i)),
                            !.bits = m.bits + 8,
                            !.rd = m.rd \cup {m.i}]
            m2 == EncAccumEmit(m1, base64_table)
        IN  EncAccumLoop([m2 EXCEPT !.i = m.i + 1], src, srclen, base64_table)
    ELSE m

\* bits += 4
RECURSIVE EncAccumPad_short(_)
EncAccumPad_short(m) ==
    IF m.bits < 0 THEN EncAccumPad_short(Put([m EXCEPT !.bits = m.bits + 4], PAD))
    ELSE m

\* while (bits < 0) { *cp++ = '='; bits += 2; }
RECURSIVE EncAccumPad(_)
EncAccumPad(m) ==
    IF m.bits < 0 THEN EncAccumPad(Put([m EXCEPT !.bits = m.bits + 2], PAD))
    ELSE m

base64_encode_accum(src, srclen, padding, variant) ==
    LET base64_table == base64_tables[variant]
        m0 == [i |-> 0, ac |-> 0, bits |-> 0, cp |-> 0, dst |-> <<>>, rd |-> {}]
        m1 == EncAccumLoop(m0, src, srclen, base64_table)
        m2 == IF m1.bits # 0
              THEN [Put(m1, Idx(base64_table,
                                And32(Shl32(m1.ac, 6 - m1.bits), 63)))
                       EXCEPT !.bits = m1.bits - 6]
              ELSE m1
        m3 == IF padding THEN EncAccumPad(m2) ELSE m2
    IN  [called |-> TRUE, ret |-> m3.cp, dst |-> m3.dst, rd |-> m3.rd]

(***************************************************************************)
(* base64_decode(), grouped implementation.  cp is the output pointer bp.  *)
(***************************************************************************)
\* while (srclen >= 4)
DecGroupedCond_off(srclen) == srclen >= 3

DecGroupedCond(srclen) == srclen >= 4

RECURSIVE DecGroupedLoop(_, _, _)
DecGroupedLoop(m, src, base64_rev_tables) ==
    IF DecGroupedCond(m.srclen) THEN
        LET input == [k \in 0..3 |-> base64_rev_tables[At(src, m.s + k)]]
            val == Or32(Or32(Or32(Shl32(input[0], 18), Shl32(input[1], 12)),
                             Shl32(input[2], 6)), input[3])
            mr == [m EXCEPT !.rd = m.rd \cup (m.s .. m.s + 3)]
        IN  IF val < 0 THEN
                IF ~m.padding \/ m.srclen # 4 \/ At(src, m.s + 3) # PAD
                THEN [mr EXCEPT !.done = TRUE, !.ret = -1]
                ELSE [mr EXCEPT !.padding = FALSE,
                                !.srclen = IF At(src, m.s + 2) = PAD THEN 2 ELSE 3]
            ELSE
                LET m1 == Put(mr, ToU8(ShrS32(val, 16)))
                    m2 == Put(m1, ToU8(ShrS32(val, 8)))
                    m3 == Put(m2, ToU8(val))
                IN  DecGroupedLoop([m3 EXCEPT !.s = m.s + 4, !.srclen = m.srclen - 4],
                                   src, base64_rev_tables)
    ELSE m

\* val & 0x800003ff: the sign bit (an invalid symbol) or one of the 10 low
\* bits (4 filler bits of the second symbol, 6 bits never set) is set
TailBad2_nosign(val) == And32(val, 1023) # 0

TailBad2(val) == And32(val, MinS32 + 1023) # 0

\* val & 0x80000003: the sign bit or one of the 2 filler bits is set
TailBad3_nofiller(val) == And32(val, MinS32) # 0

TailBad3(val) == And32(val, MinS32 + 3) # 0

DecGroupedTail(m, src, base64_rev_tables) ==
    IF m.done THEN m
    ELSE IF m.srclen = 0 THEN [m EXCEPT !.done = TRUE, !.ret = m.cp]
    ELSE IF m.padding \/ m.srclen = 1 THEN [m EXCEPT !.done = TRUE, !.ret = -1]
    ELSE
        LET val == Or32(Shl32(base64_rev_tables[At(src, m.s)], 12),
                        Shl32(base64_rev_tables[At(src, m.s + 1)], 6))
            m1 == Put([m EXCEPT !.rd = m.rd \cup {m.s, m.s + 1}],
                      ToU8(ShrS32(val, 10)))
        IN  IF m.srclen = 2 THEN
                IF TailBad2(val)
                THEN [m1 EXCEPT !.done = TRUE, !.ret = -1]
                ELSE [m1 EXCEPT !.done = TRUE, !.ret = m1.cp]
            ELSE
                LET val2 == Or32(val, base64_rev_tables[At(src, m.s + 2)])
                    m2 == [m1 EXCEPT !.rd = m1.rd \cup {m.s + 2}]
                IN  IF TailBad3(val2)
                    THEN [m2 EXCEPT !.done = TRUE, !.ret = -1]
                    ELSE LET m3 == Put(m2, ToU8(ShrS32(val2, 2)))
                         IN  [m3 EXCEPT !.done = TRUE, !.ret = m3.cp]

base64_decode_grouped(src, srclen, padding, variant) ==
    LET base64_rev_tables == base64_rev_maps[variant]
        m0 == [s |-> 0, srclen |-> srclen, padding |-> padding, cp |-> 0,
               dst |-> <<>>, rd |-> {}, done |-> FALSE, ret |-> 0]
        m1 == DecGroupedLoop(m0, src, base64_rev_tables)
        m2 == DecGroupedTail(m1, src, base64_rev_tables)
    IN  [called |-> TRUE, ret |-> m2.ret, dst |-> m2.dst, rd |-> m2.rd]

(***************************************************************************)
(* base64_decode(), bit-accumulator implementation.                        *)
(***************************************************************************)
RECURSIVE DecAccumLoop(_, _, _, _, _)
DecAccumLoop(m, src, srclen, padding, variant) ==
    IF m.i < srclen THEN
        LET c == At(src, m.i)
            mr == [m EXCEPT !.rd = m.rd \cup {m.i}, !.i = m.i + 1]
        IN  IF padding /\ c = PAD THEN
                LET bits == m.bits + 6
                IN  DecAccumLoop([mr EXCEPT !.ac = Shl32(m.ac, 6),
                                            !.bits = IF bits >= 8 THEN bits - 8 ELSE bits],
                                 src, srclen, padding, variant)
            ELSE
                LET ch == base64_rev_maps[variant][ToU8(c)]
                    ac == Or32(Shl32(m.ac, 6), ch)
                    bits == m.bits + 6
                IN  IF ch = -1 THEN [mr EXCEPT !.done = TRUE, !.ret = -1]
                    ELSE IF bits >= 8
                    THEN DecAccumLoop(Put([mr EXCEPT !.ac = ac, !.bits = bits - 8],
                                          ToU8(ShrU32(ac, bits - 8))),
                                      src, srclen, padding, variant)
                    ELSE DecAccumLoop([mr EXCEPT !.ac = ac, !.bits = bits],
                                      src, srclen, padding, variant)
    ELSE m

base64_decode_accum(src, srclen, padding, variant) ==
    LET m0 == [i |-> 0, ac |-> 0, bits |-> 0, cp |-> 0, dst |-> <<>>, rd |-> {},
               done |-> FALSE, ret |-> 0]
        m1 == DecAccumLoop(m0, src, srclen, padding, variant)
        ret == IF m1.done THEN m1.ret
               ELSE IF And32(m1.ac, Shl32(1, m1.bits) - 1) # 0 THEN -1
               ELSE m1.cp
    IN  [called |-> TRUE, ret |-> ret, dst |-> m1.dst, rd |-> m1.rd]

(***************************************************************************)
(* The callers.  A caller owns one input buffer and runs it through both   *)
(* implementations: job "encode" encodes the binary buffer bin and decodes *)
(* what the encoder wrote; job "decode" decodes the text buffer txt and    *)
(* encodes what the decoder wrote.  padding and variant are the arguments  *)
(* of every call of the run.                                               *)
(***************************************************************************)
VARIABLES job, variant, padding, bin, txt, enc, dec

vars == <<job, variant, padding, bin, txt, enc, dec>>

NoCall == [called |-> FALSE, ret |-> 0, dst |-> <<>>, rd |-> {}]

\* the first n elements of a written buffer, as the sequence a call is given
Buf(dst, n) == [k \in 1..n |-> IF (k - 1) \in DOMAIN dst THEN dst[k - 1] ELSE 0]

RECURSIVE SeqsUpTo(_, _)
SeqsUpTo(S, n) ==
    IF n = 0 THEN {<<>>}
    ELSE LET T == SeqsUpTo(S, n - 1)
         IN  T \cup {Append(t, x) : t \in {u \in T : Len(u) = n - 1}, x \in S}

BinInputs == SeqsUpTo(ByteVals, MaxSrcLen)
TxtInputs == {p \o t : p \in Prefixes, t \in SeqsUpTo(CharVals, MaxTail)}

base64_encode(impl, src, srclen, p, v) ==
    IF impl = "grouped" THEN base64_encode_grouped(src, srclen, p, v)
    ELSE base64_encode_accum(src, srclen, p, v)

base64_decode(impl, src, srclen, p, v) ==
    IF impl = "grouped" THEN base64_decode_grouped(src, srclen, p, v)
    ELSE base64_decode_accum(src, srclen, p, v)

Init ==
    /\ job \in {"encode", "decode"}
    /\ variant \in Variants
    /\ padding \in BOOLEAN
    /\ bin \in (IF job = "encode" THEN BinInputs ELSE {<<>>})
    /\ txt \in (IF job = "decode" THEN TxtInputs ELSE {<<>>})
    /\ enc = [i \in Impls |-> NoCall]
    /\ dec = [i \in Impls |-> NoCall]

\* base64_encode(bin, len, dst, padding, variant)
EncodeInput(impl) ==
    /\ job = "encode"
    /\ ~enc[impl].called
    /\ enc' = [enc EXCEPT ![impl] = base64_encode(impl, bin, Len(bin), padding, variant)]
    /\ UNCHANGED <<job, variant, padding, bin, txt, dec>>

\* base64_decode() of the string the encoder wrote
DecodeEncoded(impl) ==
    /\ job = "encode"
    /\ enc[impl].called
    /\ ~dec[impl].called
    /\ dec' = [dec EXCEPT ![impl] =
                 base64_decode(impl, Buf(enc[impl].dst, enc[impl].ret), enc[impl].ret,
                               padding, variant)]
    /\ UNCHANGED <<job, variant, padding, bin, txt, enc>>

\* base64_decode(txt, len, dst, padding, variant)
DecodeInput(impl) ==
    /\ job = "decode"
    /\ ~dec[impl].called
    /\ dec' = [dec EXCEPT ![impl] = base64_decode(impl, txt, Len(txt), padding, variant)]
    /\ UNCHANGED <<job, variant, padding, bin, txt, enc>>

\* base64_encode() of the bytes a successful decode wrote
EncodeDecoded(impl) ==
    /\ job = "decode"
    /\ dec[impl].called
    /\ dec[impl].ret >= 0
    /\ ~enc[impl].called
    /\ enc' = [enc EXCEPT ![impl] =
                 base64_encode(impl, Buf(dec[impl].dst, dec[impl].ret), dec[impl].ret,
                               padding, variant)]
    /\ UNCHANGED <<job, variant, padding, bin, txt, dec>>

Next ==
    \/ \E impl \in Impls : EncodeInput(impl)
    \/ \E impl \in Impls : DecodeEncoded(impl)
    \/ \E impl \in Impls : DecodeInput(impl)
    \/ \E impl \in Impls : EncodeDecoded(impl)

Spec == Init /\ [][Next]_vars

(***************************************************************************)
(* What a call was given.                                                  *)
(***************************************************************************)
\* the bytes handed to base64_encode() of implementation i
EncIn(i) == IF job = "encode" THEN bin ELSE Buf(dec[i].dst, dec[i].ret)

\* the string handed to base64_decode() of implementation i
DecIn(i) == IF job = "decode" THEN txt ELSE Buf(enc[i].dst, enc[i].ret)

\* the 64 symbols of the variant's alphabet
Alphabet(v) == {base64_tables[v][k] : k \in 1..64}

\* the 6-bit value of a symbol of the alphabet: its position in the table
SymVal(v, c) == CHOOSE k \in 0..63 : base64_tables[v][k + 1] = c

CeilDiv(a, b) == (a + b - 1) \div b

NumPad(t) == Cardinality({k \in 1..Len(t) : t[k] = PAD})

TypeOK ==
    /\ job \in {"encode", "decode"}
    /\ variant \in Variants
    /\ padding \in BOOLEAN
    /\ bin \in Seq(0..255)
    /\ txt \in Seq(0..255)
    /\ \A i \in Impls :
        /\ enc[i].called \in BOOLEAN /\ dec[i].called \in BOOLEAN
        /\ enc[i].ret >= 0 /\ dec[i].ret >= -1
        /\ \A k \in DOMAIN enc[i].dst : enc[i].dst[k] \in 0..255
        /\ \A k \in DOMAIN dec[i].dst : dec[i].dst[k] \in 0..255

(***************************************************************************)
(* C1.  Round trip: decoding what base64_encode() wrote for B, with the    *)
(* same padding flag and variant, succeeds, returns len(B) and writes      *)
(* exactly the bytes of B; for each implementation.                        *)
(***************************************************************************)
C1_RoundTrip ==
    \A i \in Impls :
        (job = "encode" /\ dec[i].called) =>
            /\ dec[i].ret = Len(bin)
            /\ DOMAIN dec[i].dst = 0 .. (Len(bin) - 1)
            /\ Buf(dec[i].dst, dec[i].ret) = bin

C1_Witness ==
    /\ job = "encode"
    /\ \A i \in Impls : dec[i].called /\ dec[i].ret = 4
    /\ bin = <<251, 111, 0, 251>>
    /\ ~padding
    /\ variant = "IMAP"

(***************************************************************************)
(* C2.  Length law of base64_encode(): for an input of N bytes the return  *)
(* value is 4*ceil(N/3) with padding and ceil(8*N/6) without; the string   *)
(* ends with (3 - N mod 3) mod 3 '=' when padding is requested and holds   *)
(* no '=' otherwise; for each implementation.                              *)
(***************************************************************************)
C2_LengthLaw ==
    \A i \in Impls :
        enc[i].called =>
            LET N == Len(EncIn(i))
                out == Buf(enc[i].dst, enc[i].ret)
                npad == IF padding THEN (3 - (N % 3)) % 3 ELSE 0
            IN  /\ enc[i].ret = IF padding THEN 4 * CeilDiv(N, 3) ELSE CeilDiv(8 * N, 6)
                /\ \A k \in 1..Len(out) : (out[k] = PAD) <=> (k > Len(out) - npad)

C2_Witness ==
    /\ job = "encode"
    /\ Len(bin) = 4
    /\ padding
    /\ \A i \in Impls : enc[i].called /\ enc[i].ret = 8 /\ enc[i].dst[6] = PAD

(***************************************************************************)
(* C3.  Alphabet rejection: base64_decode() returns -1 whenever its input  *)
(* holds, at any position, a character that is none of the 64 symbols of   *)
(* the variant's alphabet and is not '=' under padding = true; for each    *)
(* implementation.                                                         *)
(***************************************************************************)
C3_AlphabetRejection ==
    \A i \in Impls :
        dec[i].called =>
            LET t == DecIn(i)
            IN  (\E k \in 1..Len(t) :
                    /\ t[k] \notin Alphabet(variant)
                    /\ ~(padding /\ t[k] = PAD))
                => dec[i].ret = -1

\* "-A": the 62 symbol of URLSAFE in an unpadded tail under STD
C3_Witness ==
    /\ job = "decode"
    /\ variant = "STD"
    /\ ~padding
    /\ txt = <<45, 65>>
    /\ \A i \in Impls : dec[i].called /\ dec[i].ret = -1

(***************************************************************************)
(* C4.  Padding placement: with padding = true base64_decode() returns -1  *)
(* unless the length of the input is a multiple of 4 and every '=' of the  *)
(* input lies in a suffix of one or two '=' that ends the input; for each  *)
(* implementation.                                                         *)
(***************************************************************************)
WellPadded(t) ==
    /\ Len(t) % 4 = 0
    /\ NumPad(t) <= 2
    /\ \A k \in 1..Len(t) : t[k] = PAD => k > Len(t) - NumPad(t)

C4_PaddingPlacement ==
    \A i \in Impls :
        (dec[i].called /\ padding /\ ~WellPadded(DecIn(i))) => dec[i].ret = -1

(***************************************************************************)
(* C5.  Non-canonical trailing bits are rejected: when the final group     *)
(* holds 2 data symbols (unpadded tail of 2, or "xx==" under padding) and  *)
(* the low 4 bits of the second one's value are not zero, or 3 data        *)
(* symbols (unpadded tail of 3, or "xxx=" under padding) and the low 2     *)
(* bits of the third one's value are not zero, base64_decode() returns -1; *)
(* for each implementation.                                                *)
(***************************************************************************)
\* the number of data symbols of a partial final group, 0 if there is none
TailSymbols(t) ==
    LET n == Len(t)
    IN  IF ~padding THEN (IF n % 4 \in {2, 3} THEN n % 4 ELSE 0)
        ELSE IF n = 0 \/ n % 4 # 0 \/ t[n] # PAD THEN 0
        ELSE IF t[n - 1] = PAD THEN 2 ELSE 3

NonCanonical(t) ==
    LET n == Len(t)
        r == TailSymbols(t)
        last == t[4 * ((n - 1) \div 4) + r]
    IN  /\ r # 0
        /\ last \in Alphabet(variant)
        /\ SymVal(variant, last) % (IF r = 2 THEN 16 ELSE 4) # 0

C5_TrailingBits ==
    \A i \in Impls :
        (dec[i].called /\ NonCanonical(DecIn(i))) => dec[i].ret = -1

(***************************************************************************)
(* C6.  Unpadded leftover rule: with padding = false and an input of N     *)
(* characters, base64_decode() returns -1 whenever N mod 4 = 1, and a      *)
(* successful call returns 3*(N div 4) + 0, 1 or 2 for N mod 4 = 0, 2 or   *)
(* 3; for each implementation.                                             *)
(***************************************************************************)
C6_UnpaddedLeftover ==
    \A i \in Impls :
        (dec[i].called /\ ~padding) =>
            LET N == Len(DecIn(i))
            IN  /\ N % 4 = 1 => dec[i].ret = -1
                /\ dec[i].ret >= 0 =>
                      dec[i].ret = 3 * (N \div 4)
                                   + (CASE N % 4 = 2 -> 1 [] N % 4 = 3 -> 2 [] OTHER -> 0)

(***************************************************************************)
(* C7.  Buffer bounds: base64_decode() of N characters reads src only at   *)
(* indices < N and writes dst only at indices < 3*ceil(N/4), also when it  *)
(* returns -1; base64_encode() of N bytes reads src only at indices < N    *)
(* and writes exactly the indices 0..ret-1 of dst, ret <= 4*ceil(N/3);     *)
(* for each implementation.                                                *)
(***************************************************************************)
C7_BufferBounds ==
    \A i \in Impls :
        /\ dec[i].called =>
              LET N == Len(DecIn(i))
              IN  /\ \A k \in dec[i].rd : k >= 0 /\ k < N
                  /\ \A k \in DOMAIN dec[i].dst : k >= 0 /\ k < 3 * CeilDiv(N, 4)
        /\ enc[i].called =>
              LET N == Len(EncIn(i))
              IN  /\ \A k \in enc[i].rd : k >= 0 /\ k < N
                  /\ DOMAIN enc[i].dst = 0 .. (enc[i].ret - 1)
                  /\ enc[i].ret <= 4 * CeilDiv(N, 3)

\* "Zm9v" then "9-": the tail byte is written before the filler bits of
\* '-' make the call fail
C7_Witness ==
    /\ job = "decode"
    /\ ~padding
    /\ variant = "URLSAFE"
    /\ txt = <<90, 109, 57, 118, 57, 45>>
    /\ dec["grouped"].called
    /\ dec["grouped"].ret = -1
    /\ DOMAIN dec["grouped"].dst = 0..3
    /\ dec["accum"].called

(***************************************************************************)
(* C8.  Encoder equivalence: on the same bytes, padding flag and variant   *)
(* the two implementations of base64_encode() return the same length and   *)
(* write the same characters.                                              *)
(***************************************************************************)
C8_EncoderEquivalence ==
    (job = "encode" /\ enc["grouped"].called /\ enc["accum"].called) =>
        /\ enc["grouped"].ret = enc["accum"].ret
        /\ enc["grouped"].dst = enc["accum"].dst

C8_Witness ==
    /\ job = "encode"
    /\ bin = <<102, 111, 111, 251>>
    /\ padding
    /\ variant = "URLSAFE"
    /\ enc["grouped"].called
    /\ enc["accum"].called
    /\ Buf(enc["accum"].dst, 8) = <<90, 109, 57, 118, 45, 119, 61, 61>>

(***************************************************************************)
(* C9.  Decoder equivalence: on the same string, padding flag and variant  *)
(* the two implementations of base64_decode() either both return -1 or     *)
(* return the same length and the same bytes.                              *)
(***************************************************************************)
C9_DecoderEquivalence ==
    (job = "decode" /\ dec["grouped"].called /\ dec["accum"].called) =>
        /\ dec["grouped"].ret = dec["accum"].ret
        /\ dec["grouped"].ret >= 0 =>
              Buf(dec["grouped"].dst, dec["grouped"].ret)
                = Buf(dec["accum"].dst, dec["accum"].ret)

(***************************************************************************)
(* C10.  Canonical acceptance of the grouped decoder: when it accepts a    *)
(* string, the grouped base64_encode() of the bytes it wrote, with the     *)
(* same padding flag and variant, is that string character for character.  *)
(***************************************************************************)
C10_CanonicalAcceptance ==
    (job = "decode" /\ enc["grouped"].called) =>
        /\ enc["grouped"].ret = Len(txt)
        /\ Buf(enc["grouped"].dst, enc["grouped"].ret) = txt

\* "Zm9v" then "9A==" under padding
C10_Witness ==
    /\ job = "decode"
    /\ padding
    /\ variant = "STD"
    /\ txt = <<90, 109, 57, 118, 57, 65, 61, 61>>
    /\ dec["grouped"].ret = 4
    /\ enc["grouped"].called

====
